---- MODULE Spec2Model ----
(***************************************************************************)
(* Model of MIDIPlayer (src/midi_classifier.py, lines 14-122): the         *)
(* controlling thread (the Tk main loop) calling load_midi / play / stop / *)
(* set_tempo / set_loop_points / toggle_loop, and the daemon threads       *)
(* running _play_thread, all sharing the player's attributes and the       *)
(* output port.                                                            *)
(*                                                                         *)
(* Units: delays and positions are integers (tenths of a second), tempo is *)
(* in hundredths (100 = 1.0).  Wall-clock time is not modelled: a sleep is *)
(* a point where the other threads may run.                                *)
(*                                                                         *)
(* Granularity: one step is one statement that reads or writes a shared    *)
(* attribute or sends to the port.                                         *)
(* Line 81 (current_position += msg.time) is taken as one step, as an      *)
(* interpreter runs it that switches threads only at calls and at loop     *)
(* back-edges.  An older interpreter can switch between the load and the   *)
(* store, and two play threads can then lose an update of                  *)
(* current_position; that outcome is not covered here.                     *)
(* A step that touches nothing shared (the generator's next message) is   *)
(* joined to the step before it.  The notes-off sweep of stop() is cut     *)
(* into runs of its 16*128 sends: a run ends right after the note-off of a *)
(* note that some performance can sound, or at the last send.  The other   *)
(* note-offs of a run are for notes nothing ever switches on, so they      *)
(* commute with every step of the other threads.                           *)
(*                                                                         *)
(* The output port is part of the state: it is open, broken (the device    *)
(* is gone, every send raises) or closed by __del__.  The sink can keep a  *)
(* log of the note messages it receives.  Under Spec the port stays open   *)
(* and the log is off; SpecFault, SpecDel and SpecPass are where they move.*)
(***************************************************************************)
EXTENDS Integers, Sequences, FiniteSets, TLC

\* ---------------------------------------------------------------- bounds
MaxThreads == 2      \* thread objects that may be alive at the same time
MaxPos     == 0      \* play() without start_pos is not called once
                     \*   current_position exceeds this
MaxTogglePos == 3    \* toggle_loop() is not called once current_position
                     \*   exceeds this (a toggle between the boundary check
                     \*   and the end of each pass lets it grow for ever)
MaxLog     == 4      \* note messages the sink's log keeps

\* ------------------------------------------------------- program constants
RangeChannels == 16          \* for channel in range(16)
RangeNotes    == 128         \* for note in range(128)
MinTempo      == 25          \* 0.25
MaxTempo      == 200         \* 2.0
InitTempo     == 100         \* self.tempo = 1.0
None          == -1          \* Python None (loop_end before any load)

\* ------------------------------------------------------------ event source
\* What mido.MidiFile(path) decodes to: the merged, timed message sequence
\* that MidiFile.play(meta_messages=True) yields.
Ev(d, ty, c, n) == [time |-> d, type |-> ty, channel |-> c, note |-> n]

Events(p) ==
    CASE p = 1 -> << Ev(1, "note_on", 0, 60), Ev(2, "note_off", 0, 60),
                     Ev(0, "other", 0, 0) >>
      [] p = 2 -> << >>
      [] OTHER -> << >>

Perfs == {1, 2}              \* decodable files: a note and a meta message; empty
Bad   == 0                   \* a path mido.MidiFile() raises on

RECURSIVE SumTimes(_)
SumTimes(s) == IF s = << >> THEN 0 ELSE Head(s).time + SumTimes(Tail(s))

\* sum(msg.time for track in tracks for msg in track), for a file of one
\* track whose delays are written in the unit the player counts in
TotalTime(p) == SumTimes(Events(p))

IsNote(e) == e.type \in {"note_on", "note_off"}

\* (channel, note) pairs that some performance switches on or off
SoundedPairs ==
    UNION { { <<Events(p)[j].channel, Events(p)[j].note>> :
                j \in { m \in 1..Len(Events(p)) : IsNote(Events(p)[m]) } } :
            p \in Perfs }

\* ------------------------------------------------------------------ inputs
StartPositions == {None, 0}              \* play(start_pos)
MainFiles      == {1, Bad}               \* load_midi(filepath), under Spec
SoloFiles      == {1, 2, Bad}            \* load_midi(filepath), under SpecSolo
LoopPoints     == {<<1, 2>>, <<2, 1>>}   \* set_loop_points(start, end)
TempoInputs    == 0..300                 \* set_tempo(tempo)

Threads == 1..MaxThreads
Actors  == 0..MaxThreads                 \* 0 is the controlling thread

\* ------------------------------------------------------------------- state
VARIABLES
    current_midi,      \* self.current_midi: 0 (None) or a performance
    is_playing,        \* self.is_playing
    is_looping,        \* self.is_looping
    loop_start,        \* self.loop_start
    loop_end,          \* self.loop_end
    tempo,             \* self.tempo
    current_position,  \* self.current_position
    play_thread,       \* self.play_thread: 0 (None) or the latest Thread
    threads,           \* the Thread objects and the frames of _play_thread
    ctl,               \* the controlling thread's call in progress
    sounding,          \* sink: (channel, note) pairs switched on, not yet off
    swept,             \* sink: per caller, pairs 0..swept-1 of its current
                       \*   stop() have received their note-off
    noffs,             \* sink: per caller, note-offs received from its
                       \*   current stop()
    restarted,         \* play() called stop() before it started play_thread
    ctl_last,          \* "stop": the controller's last completed call was
                       \*   stop(); "stop2": its last two were
    err,               \* exception raised by the controller's last call
    port,              \* self.port: "open", "broken" (every send raises)
                       \*   or "closed"
    sink_log,          \* sink: the note messages received from the dispatch
                       \*   loops, in order of arrival, while recording
    recording,         \* sink: whether it keeps sink_log
    texc               \* exception raised in a play thread: "caught" by
                       \*   line 89, or "uncaught" (it ended the thread)

vars == << current_midi, is_playing, is_looping, loop_start, loop_end, tempo,
           current_position, play_thread, threads, ctl, sounding, swept,
           noffs, restarted, ctl_last, err, port, sink_log, recording, texc >>

ctlVars    == << ctl, ctl_last, err >>
sinkVars   == << sounding, swept, noffs >>
loopVars   == << is_looping, loop_start, loop_end >>
envVars    == << port, sink_log, recording, texc >>

\* pc "none": no such thread, or it has terminated
NoThread == [pc |-> "none", mid |-> 0, i |-> 0, k |-> 0]

CtlIdle  == [pc |-> "idle", op |-> "none", arg |-> 0, k |-> 0]

\* the player object has been finalised: nothing can call it any more
CtlDead  == [pc |-> "dead", op |-> "none", arg |-> 0, k |-> 0]

Alive(t)   == threads[t].pc # "none"
\* alive and not yet in the finally clause
InLoop(t)  == threads[t].pc \in {"while", "for", "check", "sleep",
                                 "adv", "loopchk", "after"}
Sweeping(t) == threads[t].pc = "sweep"

Min(S) == CHOOSE x \in S : \A y \in S : x <= y

\* MIDIPlayer.__init__, with the first output port opened (lines 28-29)
InitPlayer ==
    /\ current_midi = 0
    /\ is_playing = FALSE
    /\ is_looping = FALSE
    /\ loop_start = 0
    /\ loop_end = None
    /\ tempo = InitTempo
    /\ current_position = 0
    /\ play_thread = 0
    /\ threads = [t \in Threads |-> NoThread]
    /\ ctl = CtlIdle
    /\ sounding = {}
    /\ swept = [a \in Actors |-> 0]
    /\ noffs = [a \in Actors |-> 0]
    /\ restarted = FALSE
    /\ ctl_last = "other"
    /\ err = "none"
    /\ port = "open"
    /\ sink_log = << >>
    /\ texc = "none"

\* the sink keeps no log
Init == InitPlayer /\ recording = FALSE

\* the sink logs the note messages it receives
InitRec == InitPlayer /\ recording = TRUE

\* --------------------------------------------------------------- the sink
\* port.send(msg) for a note message of the performance
SinkNote(e) ==
    IF e.type = "note_on" THEN sounding \cup {<<e.channel, e.note>>}
                          ELSE sounding \ {<<e.channel, e.note>>}

SinkIndex(c, n) == c * 128 + n

\* the log after the sink has received note message e
Logged(e) == IF recording /\ Len(sink_log) < MaxLog THEN Append(sink_log, e)
                                                     ELSE sink_log

\* port.send(msg) raises: the device is gone, or the port was closed
SendRaises == port # "open"

\* the output device goes away while the program runs
SinkBreak ==
    /\ port = "open"
    /\ port' = "broken"
    /\ UNCHANGED << current_midi, is_playing, is_looping, loop_start, loop_end,
                    tempo, current_position, play_thread, threads, ctl,
                    sounding, swept, noffs, restarted, ctl_last, err,
                    sink_log, recording, texc >>

\* ----------------------------------------------------- the notes-off sweep
\* iterations of the two loops of stop(): range(16), range(128)
SweepChannels == RangeChannels
SweepNotesShort == RangeNotes - 1
SweepNotes == RangeNotes
SweepLen == SweepChannels * SweepNotes

\* the (channel, note) of the k-th send of the sweep, k from 0
PairAt(k) == << k \div SweepNotes, k % SweepNotes >>
SendIndex(k) == SinkIndex(PairAt(k)[1], PairAt(k)[2])

\* the pairs the sweep reaches, and the send that reaches pair p
InSweep(p) == p[1] < SweepChannels /\ p[2] < SweepNotes
SendOf(p) == p[1] * SweepNotes + p[2]

\* last send of the run that starts at send k
RunEnd(k) ==
    LET S == { SendOf(p) : p \in { q \in SoundedPairs :
                                     InSweep(q) /\ SendOf(q) >= k } }
    IN  IF S = {} THEN SweepLen - 1 ELSE Min(S)

\* sends m with k <= m < j after which the sweep skips a pair of the sink
Gaps(k, j) ==
    { m \in { r * SweepNotes - 1 : r \in 1..SweepChannels } :
        k <= m /\ m < j /\ SendIndex(m + 1) # SendIndex(m) + 1 }

\* the sink receives the note-offs of sends k..j from actor a
SweepSend(a, k, j) ==
    /\ sounding' = { p \in sounding :
                       ~(InSweep(p) /\ k <= SendOf(p) /\ SendOf(p) <= j) }
    /\ swept' = [swept EXCEPT ![a] =
                    IF @ # SendIndex(k) THEN @
                    ELSE IF Gaps(k, j) = {} THEN SendIndex(j) + 1
                    ELSE SendIndex(Min(Gaps(k, j))) + 1]
    /\ noffs' = [noffs EXCEPT ![a] = @ + (j - k + 1)]

\* --------------------------------------------------- the controlling thread
\* consecutive completed stop() calls, as seen by the caller
AfterStop(l) == IF l \in {"stop", "stop2"} THEN "stop2" ELSE "stop"

\* stop(), line 98, called from the controller as op ("stop", "load", "play")
CtlStopBegin(op, arg) ==
    /\ is_playing' = FALSE
    /\ ctl' = [pc |-> "sweep", op |-> op, arg |-> arg, k |-> 0]
    /\ swept' = [swept EXCEPT ![0] = 0]
    /\ noffs' = [noffs EXCEPT ![0] = 0]
    /\ err' = "none"

\* a stop() that returns at once when nothing is playing
StopCallIfPlaying ==
    /\ ctl.pc = "idle"
    /\ IF is_playing
         THEN /\ CtlStopBegin("stop", 0)
              /\ UNCHANGED ctl_last
         ELSE /\ swept' = [swept EXCEPT ![0] = 0]
              /\ noffs' = [noffs EXCEPT ![0] = 0]
              /\ err' = "none"
              /\ ctl_last' = AfterStop(ctl_last)
              /\ UNCHANGED << is_playing, ctl >>
    /\ UNCHANGED << current_midi, loopVars, tempo, current_position,
                    play_thread, threads, restarted, envVars, sounding >>

\* stop() called by the controller (Stop button, file change, window close)
StopCall ==
    /\ ctl.pc = "idle"
    /\ CtlStopBegin("stop", 0)
    /\ UNCHANGED << current_midi, loopVars, tempo, current_position,
                    play_thread, threads, restarted, envVars, sounding, ctl_last >>

\* load_midi(filepath), line 37: self.stop()
LoadCall(p) ==
    /\ ctl.pc = "idle"
    /\ CtlStopBegin("load", p)
    /\ ctl_last' = "other"
    /\ UNCHANGED << current_midi, loopVars, tempo, current_position,
                    play_thread, threads, restarted, envVars, sounding >>

\* where the controller continues when the stop() it called returns
AfterSweep(op) ==
    CASE op = "stop" -> "idle"
      [] op = "load" -> "load_mid"
      [] op = "play" -> "play_flag"
      [] op = "del"  -> "del_close"

\* stop(), lines 99-103, one run of the sweep on the controller; after the
\* last run stop() returns to its caller.  A send that raises ends stop()
\* and the call that made it (nothing on the way catches it); an exception
\* in __del__ is dropped by the interpreter and the object is gone.
CtlSweep ==
    /\ ctl.pc = "sweep"
    /\ IF SendRaises
         THEN /\ err' = "send"
              /\ ctl' = IF ctl.op = "del" THEN CtlDead ELSE CtlIdle
              /\ ctl_last' = "other"
              /\ UNCHANGED sinkVars
         ELSE LET j == RunEnd(ctl.k)
              IN  /\ SweepSend(0, ctl.k, j)
                  /\ UNCHANGED err
                  /\ IF j + 1 >= SweepLen
                       THEN /\ ctl' = IF ctl.op = "stop" THEN CtlIdle
                                      ELSE [ctl EXCEPT
                                              !.pc = AfterSweep(ctl.op),
                                              !.k = 0]
                            /\ ctl_last' = IF ctl.op = "stop"
                                             THEN AfterStop(ctl_last)
                                             ELSE ctl_last
                       ELSE /\ ctl' = [ctl EXCEPT !.k = j + 1]
                            /\ UNCHANGED ctl_last
    /\ UNCHANGED << current_midi, is_playing, loopVars, tempo,
                    current_position, play_thread, threads, restarted,
                    envVars >>

\* a load that drops the current file before it tries to decode the new one
LoadMidClear ==
    /\ ctl.pc = "load_mid"
    /\ IF ctl.arg = Bad
         THEN /\ err' = "load"
              /\ ctl' = CtlIdle
              /\ current_midi' = 0
         ELSE /\ current_midi' = ctl.arg
              /\ ctl' = [ctl EXCEPT !.pc = "load_end"]
              /\ UNCHANGED err
    /\ UNCHANGED << is_playing, loopVars, tempo, current_position,
                    play_thread, threads, sinkVars, restarted, envVars,
                    ctl_last >>

\* load_midi, line 39: self.current_midi = mido.MidiFile(filepath), which
\* raises on an undecodable file (lines 44-45 re-raise)
LoadMid ==
    /\ ctl.pc = "load_mid"
    /\ IF ctl.arg = Bad
         THEN /\ err' = "load"
              /\ ctl' = CtlIdle
              /\ UNCHANGED current_midi
         ELSE /\ current_midi' = ctl.arg
              /\ ctl' = [ctl EXCEPT !.pc = "load_end"]
              /\ UNCHANGED err
    /\ UNCHANGED << is_playing, loopVars, tempo, current_position,
                    play_thread, threads, sinkVars, restarted, envVars, ctl_last >>

\* load_midi, lines 42-43: self.loop_end = sum(msg.time ...)
LoadEnd ==
    /\ ctl.pc = "load_end"
    /\ loop_end' = TotalTime(ctl.arg)
    /\ ctl' = CtlIdle
    /\ UNCHANGED << current_midi, is_playing, is_looping, loop_start, tempo,
                    current_position, play_thread, threads, sinkVars,
                    restarted, envVars, ctl_last, err >>

FreeSlots == { t \in Threads : ~Alive(t) }

\* play(start_pos), lines 49-53: return without a file; stop() if playing
PlayCall(sp) ==
    /\ ctl.pc = "idle"
    /\ FreeSlots # {}
    /\ sp = None => current_position <= MaxPos
    /\ ctl_last' = "other"
    /\ err' = "none"
    /\ IF current_midi = 0
         THEN /\ ctl' = CtlIdle
              /\ UNCHANGED << is_playing, swept, noffs >>
         ELSE IF is_playing
           THEN /\ is_playing' = FALSE
                /\ ctl' = [pc |-> "sweep", op |-> "play", arg |-> sp, k |-> 0]
                /\ swept' = [swept EXCEPT ![0] = 0]
                /\ noffs' = [noffs EXCEPT ![0] = 0]
           ELSE /\ ctl' = [pc |-> "play_flag", op |-> "start", arg |-> sp,
                           k |-> 0]
                /\ UNCHANGED << is_playing, swept, noffs >>
    /\ UNCHANGED << current_midi, loopVars, tempo, current_position,
                    play_thread, threads, restarted, envVars, sounding >>

\* play, line 55: self.is_playing = True
PlayFlag ==
    /\ ctl.pc = "play_flag"
    /\ is_playing' = TRUE
    /\ ctl' = [ctl EXCEPT !.pc = IF ctl.arg = None THEN "play_start"
                                                   ELSE "play_pos"]
    /\ UNCHANGED << current_midi, loopVars, tempo, current_position,
                    play_thread, threads, sinkVars, restarted, envVars, ctl_last, err >>

\* play, lines 56-57: self.current_position = start_pos
PlayPos ==
    /\ ctl.pc = "play_pos"
    /\ current_position' = ctl.arg
    /\ ctl' = [ctl EXCEPT !.pc = "play_start"]
    /\ UNCHANGED << current_midi, is_playing, loopVars, tempo, play_thread,
                    threads, sinkVars, restarted, envVars, ctl_last, err >>

\* play, lines 59-61: a new Thread(target=self._play_thread) is started
PlayStart ==
    /\ ctl.pc = "play_start"
    /\ LET t == Min(FreeSlots)
       IN  /\ threads' = [threads EXCEPT ![t] = [NoThread EXCEPT !.pc = "while"]]
           /\ play_thread' = t
    /\ restarted' = (ctl.op = "play")
    /\ ctl' = CtlIdle
    /\ UNCHANGED << current_midi, is_playing, loopVars, tempo,
                    current_position, sinkVars, ctl_last, err, envVars >>

\* Python's min and max of two numbers
PyMin(a, b) == IF b < a THEN b ELSE a
PyMax(a, b) == IF b > a THEN b ELSE a

\* set_tempo(tempo), line 107
ClampNoFloor(t) == PyMin(MaxTempo, t)
Clamp(t) == PyMax(MinTempo, PyMin(MaxTempo, t))

SetTempo(t) ==
    /\ ctl.pc = "idle"
    /\ tempo' = Clamp(t)
    /\ ctl_last' = "other"
    /\ UNCHANGED << current_midi, is_playing, loopVars, current_position,
                    play_thread, threads, ctl, err, sinkVars, restarted, envVars >>

\* set_loop_points(start, end), lines 111-112
SetLoopPoints(s, e) ==
    /\ ctl.pc = "idle"
    /\ loop_start' = s
    /\ loop_end' = e
    /\ ctl_last' = "other"
    /\ UNCHANGED << current_midi, is_playing, is_looping, tempo,
                    current_position, play_thread, threads, ctl, err,
                    sinkVars, restarted, envVars >>

\* toggle_loop(), line 116
ToggleLoop ==
    /\ ctl.pc = "idle"
    /\ current_position <= MaxTogglePos
    /\ is_looping' = ~is_looping
    /\ ctl_last' = "other"
    /\ UNCHANGED << current_midi, is_playing, loop_start, loop_end, tempo,
                    current_position, play_thread, threads, ctl, err,
                    sinkVars, restarted, envVars >>

\* __del__, lines 120-121: self.stop().  Nothing in __del__ looks at
\* play_thread: it runs the same whether or not a play thread is alive
\* (finalisation at interpreter exit, or an explicit call).
DelCall ==
    /\ ctl.pc = "idle"
    /\ CtlStopBegin("del", 0)
    /\ ctl_last' = "other"
    /\ UNCHANGED << current_midi, loopVars, tempo, current_position,
                    play_thread, threads, restarted, sounding, envVars >>

\* __del__, line 122: self.port.close()
DelClose ==
    /\ ctl.pc = "del_close"
    /\ port' = "closed"
    /\ ctl' = CtlDead
    /\ UNCHANGED << current_midi, is_playing, loopVars, tempo,
                    current_position, play_thread, threads, sinkVars,
                    restarted, ctl_last, err, sink_log, recording, texc >>

\* ------------------------------------------------- _play_thread, per thread
threadFrame == << current_midi, is_playing, loopVars, tempo, current_position,
                  play_thread, ctlVars, sinkVars, restarted, envVars >>

Msg(t) == Events(threads[t].mid)[threads[t].i]

\* where the for loop goes for message i of file p: into its body, or past
\* its end once the generator is exhausted
ForPc(p, i) == IF i <= Len(Events(p)) THEN "check" ELSE "after"

\* line 66: while self.is_playing
TWhile(t) ==
    /\ threads[t].pc = "while"
    /\ threads' = [threads EXCEPT ![t].pc = IF is_playing THEN "for"
                                                          ELSE "finally"]
    /\ UNCHANGED threadFrame

\* a replay that seeks: it skips the messages that end at or before
\* current_position
TForSeek(t) ==
    /\ threads[t].pc = "for"
    /\ LET skip == Cardinality({ m \in 1..Len(Events(current_midi)) :
                       /\ current_position > 0
                       /\ SumTimes(SubSeq(Events(current_midi), 1, m))
                              <= current_position })
       IN  threads' = [threads EXCEPT
                          ![t].pc = ForPc(current_midi, 1 + skip),
                          ![t].mid = current_midi,
                          ![t].i = 1 + skip]
    /\ UNCHANGED threadFrame

\* line 67: self.current_midi.play(meta_messages=True) binds the generator
\* to the file that is current now and yields its first message
TFor(t) ==
    /\ threads[t].pc = "for"
    /\ threads' = [threads EXCEPT ![t].pc = ForPc(current_midi, 1),
                                  ![t].mid = current_midi,
                                  ![t].i = 1]
    /\ UNCHANGED threadFrame

\* a dispatch loop that does not look at is_playing
TCheckBlind(t) ==
    /\ threads[t].pc = "check"
    /\ threads' = [threads EXCEPT ![t].pc = "sleep"]
    /\ UNCHANGED threadFrame

\* lines 68-69: if not self.is_playing: break
TCheck(t) ==
    /\ threads[t].pc = "check"
    /\ threads' = [threads EXCEPT ![t].pc = IF is_playing THEN "sleep"
                                                          ELSE "after"]
    /\ UNCHANGED threadFrame

\* a dispatch that forwards every message, whatever its type
TDispatchAll(t) ==
    /\ threads[t].pc = "sleep"
    /\ IF SendRaises
         THEN /\ is_playing' = FALSE
              /\ texc' = "caught"
              /\ threads' = [threads EXCEPT ![t].pc = "finally"]
              /\ UNCHANGED << sounding, sink_log >>
         ELSE /\ sounding' = IF IsNote(Msg(t)) THEN SinkNote(Msg(t))
                                               ELSE sounding
              /\ sink_log' = Logged(Msg(t))
              /\ threads' = [threads EXCEPT ![t].pc = "adv"]
              /\ UNCHANGED << is_playing, texc >>
    /\ UNCHANGED << current_midi, loopVars, tempo, current_position,
                    play_thread, ctlVars, swept, noffs, restarted, port,
                    recording >>

\* lines 71-79: time.sleep(msg.time * (1/self.tempo)) is over; a note
\* message is sent to the port, any other message is not
\* A send that raises is caught by line 89: lines 90-91 set is_playing
\* False and the finally clause follows.
TDispatch(t) ==
    /\ threads[t].pc = "sleep"
    /\ IF IsNote(Msg(t)) /\ SendRaises
         THEN /\ is_playing' = FALSE
              /\ texc' = "caught"
              /\ threads' = [threads EXCEPT ![t].pc = "finally"]
              /\ UNCHANGED << sounding, sink_log >>
         ELSE /\ sounding' = IF IsNote(Msg(t)) THEN SinkNote(Msg(t))
                                               ELSE sounding
              /\ sink_log' = IF IsNote(Msg(t)) THEN Logged(Msg(t))
                                               ELSE sink_log
              /\ threads' = [threads EXCEPT ![t].pc = "adv"]
              /\ UNCHANGED << is_playing, texc >>
    /\ UNCHANGED << current_midi, loopVars, tempo, current_position,
                    play_thread, ctlVars, swept, noffs, restarted, port,
                    recording >>

\* line 81: self.current_position += msg.time
TAdvance(t) ==
    /\ threads[t].pc = "adv"
    /\ current_position' = current_position + Msg(t).time
    /\ threads' = [threads EXCEPT ![t].pc = "loopchk"]
    /\ UNCHANGED << current_midi, is_playing, loopVars, tempo, play_thread,
                    ctlVars, sinkVars, restarted, envVars >>

\* lines 82-84: the loop boundary
LoopFires == is_looping /\ current_position >= loop_end

\* a boundary that ends the playback instead of the pass
TLoopChkStop(t) ==
    /\ threads[t].pc = "loopchk"
    /\ IF LoopFires
         THEN /\ current_position' = loop_start
              /\ threads' = [threads EXCEPT ![t].pc = "finally"]
         ELSE /\ threads' = [threads EXCEPT
                     ![t].pc = ForPc(threads[t].mid, threads[t].i + 1),
                     ![t].i = @ + 1]
              /\ UNCHANGED current_position
    /\ UNCHANGED << current_midi, is_playing, loopVars, tempo, play_thread,
                    ctlVars, sinkVars, restarted, envVars >>

\* lines 82-84, then line 67 for the next message
TLoopChk(t) ==
    /\ threads[t].pc = "loopchk"
    /\ IF LoopFires
         THEN /\ current_position' = loop_start
              /\ threads' = [threads EXCEPT ![t].pc = "after"]
         ELSE /\ threads' = [threads EXCEPT
                     ![t].pc = ForPc(threads[t].mid, threads[t].i + 1),
                     ![t].i = @ + 1]
              /\ UNCHANGED current_position
    /\ UNCHANGED << current_midi, is_playing, loopVars, tempo, play_thread,
                    ctlVars, sinkVars, restarted, envVars >>

\* a loop that goes round whatever is_looping says
TAfterAlways(t) ==
    /\ threads[t].pc = "after"
    /\ threads' = [threads EXCEPT ![t].pc = "while", ![t].mid = 0, ![t].i = 0]
    /\ UNCHANGED threadFrame

\* lines 86-87: if not self.is_looping: break
TAfter(t) ==
    /\ threads[t].pc = "after"
    /\ threads' = [threads EXCEPT ![t].pc = IF is_looping THEN "while"
                                                          ELSE "finally",
                                  ![t].mid = 0, ![t].i = 0]
    /\ UNCHANGED threadFrame

\* lines 92-94 and 98: finally: self.stop(), which sets is_playing False
TFinallyNoSweep(t) ==
    /\ threads[t].pc = "finally"
    /\ is_playing' = FALSE
    /\ threads' = [threads EXCEPT ![t] = NoThread]
    /\ UNCHANGED << current_midi, loopVars, tempo, current_position,
                    play_thread, ctlVars, sinkVars, restarted, envVars >>

TFinally(t) ==
    /\ threads[t].pc = "finally"
    /\ is_playing' = FALSE
    /\ threads' = [threads EXCEPT ![t].pc = "sweep", ![t].mid = 0, ![t].i = 0,
                                  ![t].k = 0]
    /\ swept' = [swept EXCEPT ![t] = 0]
    /\ noffs' = [noffs EXCEPT ![t] = 0]
    /\ UNCHANGED << current_midi, loopVars, tempo, current_position,
                    play_thread, ctlVars, sounding, restarted, envVars >>

\* lines 99-103, one run of the sweep on the thread; the thread terminates
\* after the last run.  A send that raises leaves stop(), the finally
\* clause and _play_thread: the thread dies of the exception.
TSweep(t) ==
    /\ threads[t].pc = "sweep"
    /\ IF SendRaises
         THEN /\ texc' = "uncaught"
              /\ threads' = [threads EXCEPT ![t] = NoThread]
              /\ UNCHANGED sinkVars
         ELSE LET j == RunEnd(threads[t].k)
              IN  /\ SweepSend(t, threads[t].k, j)
                  /\ threads' = [threads EXCEPT ![t] =
                         IF j + 1 >= SweepLen THEN NoThread
                                              ELSE [@ EXCEPT !.k = j + 1]]
                  /\ UNCHANGED texc
    /\ UNCHANGED << current_midi, is_playing, loopVars, tempo,
                    current_position, play_thread, ctlVars, restarted, port,
                    sink_log, recording >>

ThreadStep(t) ==
    \/ TWhile(t) \/ TFor(t) \/ TCheck(t) \/ TDispatch(t)
    \/ TAdvance(t) \/ TLoopChk(t) \/ TAfter(t)
    \/ TFinally(t) \/ TSweep(t)

\* --------------------------------------------------------- specifications
\* The player as the application drives it: the controller's buttons and
\* file changes (stop, load, play, loop toggle) against the play threads.
Next ==
    \/ StopCall
    \/ \E p \in MainFiles : LoadCall(p)
    \/ CtlSweep \/ LoadMid \/ LoadEnd
    \/ \E sp \in StartPositions : PlayCall(sp)
    \/ PlayFlag \/ PlayPos \/ PlayStart
    \/ ToggleLoop
    \/ \E t \in Threads : ThreadStep(t)

Spec == Init /\ [][Next]_vars

\* One playback left alone: the controller sets the player up (load, loop
\* points, loop toggle, stop), calls play() and makes no call once a thread
\* is started.  The interpreter's thread switching is fair: a thread that
\* can run does run, and a call in progress goes on.
Setup(A) == play_thread = 0 /\ A

CtlInCall == CtlSweep \/ LoadMid \/ LoadEnd \/ PlayFlag \/ PlayPos \/ PlayStart

NextSolo ==
    \/ Setup(StopCall)
    \/ \E p \in SoloFiles : Setup(LoadCall(p))
    \/ \E se \in LoopPoints : Setup(SetLoopPoints(se[1], se[2]))
    \/ Setup(ToggleLoop)
    \/ \E sp \in StartPositions : Setup(PlayCall(sp))
    \/ CtlInCall
    \/ \E t \in Threads : ThreadStep(t)

SpecSolo ==
    /\ Init
    /\ [][NextSolo]_vars
    /\ WF_vars(CtlInCall)
    /\ \A t \in Threads : WF_vars(ThreadStep(t))

\* The same playback with the sink's log switched on.
SpecPass ==
    /\ InitRec
    /\ [][NextSolo]_vars
    /\ WF_vars(CtlInCall)
    /\ \A t \in Threads : WF_vars(ThreadStep(t))

\* One playback that the controller may stop: set-up and play() as above,
\* then stop() as often as the user likes and no further play().
Playing(A) == play_thread # 0 /\ A

NextOne ==
    \/ Setup(StopCall)
    \/ \E p \in SoloFiles : Setup(LoadCall(p))
    \/ \E se \in LoopPoints : Setup(SetLoopPoints(se[1], se[2]))
    \/ Setup(ToggleLoop)
    \/ \E sp \in StartPositions : Setup(PlayCall(sp))
    \/ Playing(StopCall)
    \/ CtlInCall
    \/ \E t \in Threads : ThreadStep(t)

SpecOne ==
    /\ Init
    /\ [][NextOne]_vars
    /\ WF_vars(CtlInCall)
    /\ \A t \in Threads : WF_vars(ThreadStep(t))

\* The same, with the player finalised at some moment.
NextDel == NextOne \/ DelCall \/ DelClose

SpecDel ==
    /\ Init
    /\ [][NextDel]_vars
    /\ WF_vars(CtlInCall \/ DelClose)
    /\ \A t \in Threads : WF_vars(ThreadStep(t))

\* The same, with an output device that may go away at any moment.
NextFault == NextOne \/ SinkBreak

SpecFault ==
    /\ Init
    /\ [][NextFault]_vars
    /\ WF_vars(CtlInCall)
    /\ \A t \in Threads : WF_vars(ThreadStep(t))

\* set_tempo alone, over every input
NextTempo == \E t \in TempoInputs : SetTempo(t)

SpecTempo == Init /\ [][NextTempo]_vars

\* ------------------------------------------------------------------ claims
AllPairs == 16 * 128

\* no thread is alive and the controller is between two calls
Quiescent == ctl.pc = "idle" /\ \A t \in Threads : ~Alive(t)

StopWasLast == ctl.pc = "idle" /\ ctl_last \in {"stop", "stop2"}

\* C1: whenever the engine is quiescent (no play thread alive, no controller
\* call in progress), in particular after a stop() that interrupted
\* playback, no note is left on at the sink: every note-on the sink received
\* was followed by a note-off for the same (channel, note).
C1_NoStuckNotes == Quiescent => sounding = {}

\* stop() was the last call, it cut a pass short after the note-on of the
\* first message (position advanced by that message only), and all is quiet
C1_Witness ==
    /\ Quiescent
    /\ StopWasLast
    /\ play_thread # 0
    /\ current_position = 1
    /\ sounding = {}

\* a stop() called by the controller, directly or from load_midi or play,
\* has returned
CtlStopReturned ==
    \/ StopWasLast
    \/ ctl.pc = "load_mid"
    \/ ctl.pc = "play_flag" /\ ctl.op = "play"

\* C2: when a stop() has returned, whatever the playback state it was
\* called in, the sink has received from that call a note-off for every one
\* of the 16 x 128 (channel, note) pairs; the same holds of the stop() a
\* play thread ends with.
C2_FullSweep ==
    /\ CtlStopReturned => swept[0] = AllPairs
    /\ \A t \in Threads : (~Alive(t) /\ noffs[t] > 0) => swept[t] = AllPairs

\* stop() has returned although nothing was ever played
C2_Witness ==
    /\ StopWasLast
    /\ current_midi = 0
    /\ play_thread = 0
    /\ swept[0] = AllPairs

\* C3: after stop() and after a second stop() right behind it the
\* observable state is the same, is_playing false, no error was raised, and
\* each of the calls sent the sweep exactly once (16 x 128 note-offs).
C3_StopIdempotent ==
    StopWasLast =>
        /\ is_playing = FALSE
        /\ err = "none"
        /\ noffs[0] = AllPairs
        /\ swept[0] = AllPairs

\* two stop() calls in a row, the first one with a play thread alive that
\* is still alive after the second
C3_Witness ==
    /\ ctl.pc = "idle"
    /\ ctl_last = "stop2"
    /\ \E t \in Threads : InLoop(t)
    /\ is_playing = FALSE
    /\ noffs[0] = AllPairs

\* C4: once a play() that found the player playing has started its new
\* thread, no note message of an older thread reaches the sink.
C4_NoLeakAfterRestart ==
    [][ \A t \in Threads :
          (restarted /\ TDispatch(t) /\ IsNote(Msg(t))) => t = play_thread ]_vars

\* C5: at most one play thread is alive.
C5_OneLiveThread == Cardinality({ t \in Threads : Alive(t) }) <= 1

\* C6: no sweep is in progress, on the controller or on a thread that is
\* ending, while a play thread is still inside its dispatch loop.
C6_SweepAfterTermination ==
    /\ ctl.pc = "sweep" => \A t \in Threads : ~InLoop(t)
    /\ \A a \in Threads : Sweeping(a) => \A t \in Threads : ~InLoop(t)

\* the thread of the one playback, once started
Started == play_thread # 0
Pc(t) == IF t \in Threads THEN threads[t].pc ELSE "none"

\* C7: with is_looping false and no stop(), the play thread makes one pass:
\* it leaves the for loop only with the generator exhausted (every message
\* taken once, in order), never starts a second pass, and then terminates
\* with is_playing false.
C7_OnePassThenStops ==
    /\ [][ \A t \in Threads :
             ~is_looping => ~(Pc(t) = "after" /\ threads'[t].pc = "while") ]_vars
    /\ [](\A t \in Threads :
             (Pc(t) = "after" /\ ~is_looping) =>
                 threads[t].i = Len(Events(threads[t].mid)) + 1)
    /\ ((Started /\ ~is_looping) ~>
            (Started /\ Pc(play_thread) = "none" /\ ~is_playing))

\* the thread has ended after one pass over the three messages from
\* position 0
C7_Witness ==
    /\ Started /\ Pc(play_thread) = "none"
    /\ ~is_looping /\ ~is_playing
    /\ current_midi = 1
    /\ current_position = TotalTime(1)

\* looping is on and loop_end lies before the end of the performance
LoopCase ==
    /\ Started
    /\ is_looping
    /\ current_midi # 0
    /\ loop_end < TotalTime(current_midi)

AtBoundary(t) == Pc(t) = "loopchk" /\ LoopFires

\* C8: with is_looping true and loop_end before the total duration, and no
\* stop(), the play thread never leaves its loop; again and again the
\* boundary fires, position goes back to loop_start, and dispatching starts
\* again.
C8_LoopsForever ==
    /\ [](LoopCase => Pc(play_thread) \notin {"finally", "sweep", "none"})
    /\ (LoopCase ~> AtBoundary(play_thread))
    /\ ((LoopCase /\ AtBoundary(play_thread)) ~>
            (Pc(play_thread) = "after" /\ current_position = loop_start))
    /\ ((LoopCase /\ Pc(play_thread) = "after") ~> Pc(play_thread) = "sleep")

\* the boundary has fired under loop points (1, 2) on the three messages
C8_Witness ==
    /\ LoopCase
    /\ loop_start = 1 /\ loop_end = 2
    /\ Pc(play_thread) = "after"
    /\ current_position = loop_start

\* C9: play() on an empty performance: is_playing goes back to false and
\* no message is dispatched.
C9_EmptyPlayEnds ==
    /\ [](\A t \in Threads : threads[t].mid = 2 => Pc(t) \notin {"sleep", "adv"})
    /\ ((Started /\ current_midi = 2) ~>
            (Pc(play_thread) = "none" /\ ~is_playing))

\* C10: set_tempo(t) leaves tempo at t brought into 0.25..2.0, so that
\* tempo is within 0.25..2.0 in every state.
C10_TempoClamped ==
    /\ [](tempo >= 25 /\ tempo <= 200)
    /\ [][ \A t \in TempoInputs :
             SetTempo(t) =>
                 tempo' = IF t < 25 THEN 25 ELSE IF t > 200 THEN 200 ELSE t ]_vars

\* a tempo below the range was asked for and the floor was stored
C10_Witness == tempo = 25 /\ ctl_last = "other"

\* C11: a load_midi() of a file that cannot be decoded raises, and no step
\* taken while that call is in progress changes current_midi or loop_end;
\* a play() that follows it with a file loaded before does not return early
\* but goes on to start a thread, and a thread plays current_midi.
C11_FailedLoadKeepsFile ==
    /\ [][ (LoadCall(Bad) \/ (ctl.op = "load" /\ ctl.arg = Bad)) =>
              (current_midi' = current_midi /\ loop_end' = loop_end) ]_vars
    /\ [][ (LoadMid /\ ctl.arg = Bad) =>
              (err' = "load" /\ ctl'.pc = "idle") ]_vars
    /\ [][ \A sp \in StartPositions :
              (err = "load" /\ current_midi # 0 /\ PlayCall(sp)) =>
                  ctl'.pc \in {"sweep", "play_flag"} ]_vars
    /\ [](\A t \in Threads :
             Pc(t) \in {"check", "sleep", "adv", "loopchk"} =>
                 threads[t].mid # 0)

\* a load has failed with the three-message file loaded before it, and the
\* file and its loop_end are still there
C11_Witness ==
    /\ ctl.pc = "idle"
    /\ err = "load"
    /\ current_midi = 1
    /\ loop_end = TotalTime(1)

\* C12: a load_midi() that succeeds leaves current_position at 0.
C12_LoadResetsPosition == [][ LoadEnd => current_position' = 0 ]_vars

\* C13: a load_midi() that succeeds sets loop_end to the total of the
\* file's delays if set_loop_points was never called, and leaves loop_end
\* as set_loop_points set it otherwise.  (loop_start is 0 until
\* set_loop_points is called, and none of LoopPoints has start 0.)
C13_LoadKeepsLoopPoints ==
    [][ LoadEnd => loop_end' = IF loop_start # 0 THEN loop_end
                                               ELSE TotalTime(ctl.arg) ]_vars

\* C14: when a send raises in the dispatch loop the thread leaves the loop
\* with is_playing false and goes through stop(), and stop() does not raise
\* even if the sweep's sends raise too: no exception ends a play thread.
C14_ErrorsContained ==
    /\ texc # "none" => ~is_playing
    /\ texc # "uncaught"

\* a message the sink is meant to receive
PerformanceEvent(e) == e.type = "note_on" \/ e.type = "note_off"

InPass(t) == Pc(t) \in {"check", "sleep", "adv", "loopchk"}

\* the messages before index i of the file thread t plays
Played(t, i) == SubSeq(Events(threads[t].mid), 1, i - 1)

\* C15: in one pass from position 0 that nothing interrupts and that does
\* not loop, the sink has received at every moment exactly the note-on and
\* note-off messages among those taken so far, in their order, once each,
\* and current_position is the sum of the delays of all messages taken so
\* far; when the thread has ended that is every note message of the file
\* and the sum of all its delays (3 tenths for the three-message file).
C15_PassForwardsNotes ==
    /\ \A t \in Threads :
          (~is_looping /\ Pc(t) \in {"check", "sleep"}) =>
              /\ sink_log = SelectSeq(Played(t, threads[t].i), PerformanceEvent)
              /\ current_position = SumTimes(Played(t, threads[t].i))
    /\ (Started /\ ~is_looping /\ Pc(play_thread) = "none") =>
          /\ sink_log = SelectSeq(Events(current_midi), PerformanceEvent)
          /\ current_position = SumTimes(Events(current_midi))

\* the pass over the three-message file has ended: note-on and note-off
\* were received, the third message was not, and position is 3 tenths
C15_Witness ==
    /\ Started /\ Pc(play_thread) = "none"
    /\ ~is_looping
    /\ current_midi = 1
    /\ sink_log = << Ev(1, "note_on", 0, 60), Ev(2, "note_off", 0, 60) >>
    /\ current_position = 3

\* C16: a thread that is not the latest one never clears an is_playing
\* that is true (it is true only because the latest play() set it), and
\* is_playing is false whenever no play thread is alive and no call is in
\* progress.
C16_FlagRaceFree ==
    /\ [][ \A t \in Threads :
              (TFinally(t) /\ is_playing) => t = play_thread ]_vars
    /\ [](Quiescent => ~is_playing)

C18_PositionMonotone ==
    /\ [][ \A t \in Threads :
              (InPass(t) /\ threads'[t].pc \in {"check", "sleep", "adv",
                                                "loopchk"}) =>
                  current_position' >= current_position ]_vars
    /\ [][ \A t \in Threads :
              TLoopChk(t) =>
                  current_position' = IF is_looping /\ current_position >= loop_end
                                        THEN loop_start
                                        ELSE current_position ]_vars

\* C19: when the boundary fires the thread leaves the pass with
\* current_position at loop_start; a thread enters a pass only at the first
\* message, whatever loop_start is, and within a pass moves from a message
\* to the one after it; so after the boundary has fired the next message
\* it sends or skips is the first one.
C19_ReplayFromFirst ==
    /\ [][ \A t \in Threads :
              (AtBoundary(t) /\ threads'[t] # threads[t]) =>
                  (current_position' = loop_start /\ threads'[t].pc = "after") ]_vars
    /\ [][ \A t \in Threads :
              (~InPass(t) /\ threads'[t].pc \in {"check", "sleep", "adv",
                                                 "loopchk"}) =>
                  (threads'[t].i = 1 /\ threads'[t].pc = "check") ]_vars
    /\ [][ \A t \in Threads :
              (InPass(t) /\ threads'[t].i > threads[t].i) =>
                  (threads'[t].i = threads[t].i + 1 /\ Pc(t) = "loopchk") ]_vars
    /\ ((Started /\ AtBoundary(play_thread)) ~>
            (Pc(play_thread) = "sleep" /\ threads[play_thread].i = 1
               /\ current_position = loop_start))

\* under loop points (1, 2) the boundary has fired and the thread is about
\* to send the first message again, from position loop_start = 1
C19_Witness ==
    /\ LoopCase
    /\ loop_start = 1 /\ loop_end = 2
    /\ Pc(play_thread) = "sleep"
    /\ threads[play_thread].i = 1
    /\ current_position = 1

\* the controller has called stop() with the play thread alive
StopCalled ==
    /\ Started /\ Alive(play_thread)
    /\ ctl.pc = "sweep" /\ ctl.op = "stop"

\* the play thread has ended after a whole sweep of its own
EndedClean ==
    /\ Started /\ Pc(play_thread) = "none"
    /\ ~is_playing
    /\ swept[play_thread] = AllPairs /\ noffs[play_thread] = AllPairs

\* C20: with no play() after the thread was started, is_playing stays
\* false once it is false; from then on a thread that is not already past
\* its is_playing test never gets to a send (so it sends at most the one
\* message it was waiting to send); and a stop() called while the thread
\* is alive is followed by the thread's end, after its own whole sweep and
\* with is_playing false.
C20_StopEndsThread ==
    /\ [][ (Started /\ ~is_playing) => ~is_playing' ]_vars
    /\ [][ \A t \in Threads :
              (Started /\ ~is_playing /\ Pc(t) # "sleep") =>
                  threads'[t].pc # "sleep" ]_vars
    /\ (StopCalled ~> EndedClean)
    /\ [][ EndedClean => EndedClean' ]_vars

\* a stop() has ended a playback that loops over the whole three-message
\* file (it would not end by itself) after its first message
C20_Witness ==
    /\ EndedClean
    /\ StopWasLast
    /\ is_looping
    /\ current_midi = 1
    /\ loop_end = TotalTime(1)
    /\ current_position = 1
====
